---- MODULE Spec2Model ----
(***************************************************************************)
(* random_io_tester: the concurrent benchmark engine of src/main.rs.       *)
(*                                                                         *)
(* One behaviour is one benchmark run: the orchestrator                    *)
(* (run_standard_io_tests / run_mmap_tests) divides the operation budget,  *)
(* spawns the workers, waits on the wait group and returns a clone of the  *)
(* merged results.  Each worker draws its picks from its own generator,    *)
(* marks the key in the shared set read_blocks, times one read and keeps   *)
(* the result when the read succeeded.  The second part of the module is   *)
(* calculate_statistics as a pure function of a latency sample.            *)
(***************************************************************************)
EXTENDS Integers, Sequences, FiniteSets

\* ------------------------------------------------------------------ bounds
MaxThreads == 2
MaxOps == 2
MaxFiles == 2

\* Values of --seed tried.  A seed is a u64; -1 stands for u64::MAX
\* (2^64 - 1), the one value whose sum with a thread id leaves the u64 range.
Seeds == {-1, 0, 5}
\* Values of --file-size and --block-size tried, in bytes.
Sizes == {0, 1, 2}
\* Durations a timer can measure, in nanoseconds.
Latencies == {1, 2}

Threads == 0 .. (MaxThreads - 1)

\* ------------------------------------------------------------------- state
VARIABLES
    args,               \* Args: the configuration of the run
    file_len,           \* the length on disk of each target file
    main_pc,            \* position of the orchestrator
    mmaps,              \* run_mmap_tests: lengths of the mappings made so far
    operations_per_thread,
    remainder,
    thread_id,          \* the spawn loop's counter
    wg,                 \* WaitGroup: thread ids holding a clone
    results,            \* Arc<Mutex<Vec<ReadResult>>>: the vector
    results_lock,       \* ... and the holder of its mutex ({} = free)
    read_blocks,        \* Arc<Mutex<HashSet<String>>>: the set
    blocks_lock,        \* ... and the holder of its mutex ({} = free)
    ret,                \* the orchestrator's return value (results.clone())
    pc,                 \* position of each worker
    thread_operations,  \* each worker's share
    rng,                \* each worker's generator state
    op,                 \* each worker's loop counter
    pick,               \* each worker's current (file_index, block_index, offset)
    is_first_read,
    timing,             \* start = Instant::now() taken, elapsed() not yet
    thread_results,     \* each worker's local Vec<ReadResult>
    picks,              \* history: the picks each worker made, in order
    mark_log,           \* history: every insert into read_blocks and its answer
    reads,              \* history: per worker, reads attempted and reads failed
    report,             \* analyze_and_report_results: the sections printed
    latencies,          \* calculate_statistics: the sample it is given
    statistics          \* calculate_statistics: the Statistics it returns

vars == << args, file_len, main_pc, mmaps, operations_per_thread, remainder,
           thread_id, wg, results, results_lock, read_blocks, blocks_lock, ret,
           pc, thread_operations, rng, op, pick, is_first_read, timing,
           thread_results, picks, mark_log, reads, report, latencies,
           statistics >>

envVars == << args, file_len, latencies, statistics >>

mainVars == << main_pc, mmaps, operations_per_thread, remainder, thread_id, ret >>
workerLocals == << thread_operations, rng, op, pick, is_first_read, timing,
                   thread_results, picks, reads >>

\* ------------------------------------------------------------- generator
\* StdRng stands behind three facts the program relies on: the state after
\* seeding is a function of the seed, each draw is a function of the state,
\* and gen_range(0..n) answers a value below n.  A full-period congruential
\* generator on sixty-four states, read from its high bits, has them all.
SeedFromU64(s) == s % 64

RngNext(state) == (13 * state + 7) % 64

\* Mutant: the inclusive range 0..=n.
GenRangeInclusive(state, n) == (RngNext(state) \div 8) % (n + 1)

\* rng.gen_range(0..n), n > 0: the value drawn (the state moves to RngNext).
GenRange(state, n) == (RngNext(state) \div 8) % n

\* ------------------------------------------------------------------ keys
Digits == << "0", "1", "2", "3", "4", "5", "6", "7", "8", "9" >>

RECURSIVE Decimal(_)
Decimal(n) ==
    IF n < 10 THEN Digits[n + 1]
    ELSE Decimal(n \div 10) \o Digits[(n % 10) + 1]

\* format!("{}:{}", file_index, block_index)
BlockKey(file_index, block_index) ==
    Decimal(file_index) \o ":" \o Decimal(block_index)

\* Mutant: membership asked after the insertion, so no call answers true.
InsertCheckedAfter(blocks, key) == key \notin (blocks \cup { key })

\* Mutant: every call answers true.
InsertAlwaysNew(blocks, key) == TRUE

\* HashSet::insert answers true when the value was not present.
InsertIsNew(blocks, key) == key \notin blocks

\* ------------------------------------------------------------- partition
\* Mutant: the remainder is dropped.
ThreadOperationsNoRemainder(per_thread, rem, tid) == per_thread

\* Mutant: every worker gets the extra operation.
ThreadOperationsRoundUp(per_thread, rem, tid) == per_thread + 1

\* operations_per_thread + if thread_id < remainder { 1 } else { 0 }
ThreadOperations(per_thread, rem, tid) ==
    per_thread + (IF tid < rem THEN 1 ELSE 0)

\* ------------------------------------------------------------ statistics
\* Mutant: the empty summary keeps the sentinel a running minimum starts from.
ZeroStatisticsSentinelMin ==
    [ count |-> 0, avg |-> 0, median |-> 0, p90 |-> 0, p95 |-> 0, p99 |-> 0,
      min |-> 2147483647, max |-> 0 ]

\* Durations are whole nanoseconds.
ZeroStatistics ==
    [ count |-> 0, avg |-> 0, median |-> 0, p90 |-> 0, p95 |-> 0, p99 |-> 0,
      min |-> 0, max |-> 0 ]

RECURSIVE InsertSorted(_, _)
InsertSorted(x, s) ==
    IF s = << >> THEN << x >>
    ELSE IF x <= Head(s) THEN << x >> \o s
    ELSE << Head(s) >> \o InsertSorted(x, Tail(s))

\* sorted_latencies.sort(): the sample in ascending order
RECURSIVE SortAscending(_)
SortAscending(s) ==
    IF s = << >> THEN << >> ELSE InsertSorted(Head(s), SortAscending(Tail(s)))

RECURSIVE SumSeq(_)
SumSeq(s) == IF s = << >> THEN 0 ELSE Head(s) + SumSeq(Tail(s))

\* Mutant: the nearest-rank (ceiling) rule.
PercentileCeilRank(count, percent) == ((count * percent + 99) \div 100) - 1

\* Mutant: the product rounded up instead of truncated.
PercentileRoundUp(count, percent) == (count * percent + 99) \div 100

\* ((count as f64) * 0.90) as usize, and likewise 0.95 and 0.99: the f64
\* product truncated.  percent is 90, 95 or 99; for the counts a sample can
\* have here the truncated product is the integer quotient count * percent / 100.
PercentileIndex(count, percent) == (count * percent) \div 100

\* count / 2, the index of the median
MedianIndex(count) == count \div 2

\* sorted_latencies[index], index counted from zero
At(sorted, index) == sorted[index + 1]

\* sum / count as u32: Duration division drops the fraction of a nanosecond.
DurationDiv(sum, count) == sum \div count

CalculateStatistics(sample) ==
    IF sample = << >> THEN ZeroStatistics
    ELSE LET sorted_latencies == SortAscending(sample)
             count == Len(sorted_latencies)
             sum == SumSeq(sorted_latencies)
         IN [ count  |-> count,
              avg    |-> DurationDiv(sum, count),
              median |-> At(sorted_latencies, MedianIndex(count)),
              p90    |-> At(sorted_latencies, PercentileIndex(count, 90)),
              p95    |-> At(sorted_latencies, PercentileIndex(count, 95)),
              p99    |-> At(sorted_latencies, PercentileIndex(count, 99)),
              min    |-> Head(sorted_latencies),
              max    |-> sorted_latencies[Len(sorted_latencies)] ]

\* --------------------------------------------------------------- initial
ArgsSet ==
    [ num_files      : 0 .. MaxFiles,
      file_size      : Sizes,
      block_size     : Sizes,
      num_threads    : 0 .. MaxThreads,
      num_operations : 0 .. MaxOps,
      seed           : Seeds,
      use_mmap       : BOOLEAN ]

NoPick == << 0, 0, 0 >>

\* The state of a run nobody has started yet.
IdleRun ==
    /\ mmaps = << >>
    /\ operations_per_thread = 0
    /\ remainder = 0
    /\ thread_id = 0
    /\ wg = {}
    /\ results = << >>
    /\ results_lock = {}
    /\ read_blocks = {}
    /\ blocks_lock = {}
    /\ ret = << >>
    /\ pc = [w \in Threads |-> "unspawned"]
    /\ thread_operations = [w \in Threads |-> 0]
    /\ rng = [w \in Threads |-> 0]
    /\ op = [w \in Threads |-> 0]
    /\ pick = [w \in Threads |-> NoPick]
    /\ is_first_read = [w \in Threads |-> FALSE]
    /\ timing = [w \in Threads |-> FALSE]
    /\ thread_results = [w \in Threads |-> << >>]
    /\ picks = [w \in Threads |-> << >>]
    /\ mark_log = {}
    /\ reads = [w \in Threads |-> [attempted |-> 0, failed |-> 0, bytes |-> 0, kept |-> {}]]
    /\ report = << >>

\* main, at "Phase 3: Run performance tests": the files exist and the mode
\* selects run_mmap_tests or run_standard_io_tests.
Init ==
    /\ args \in ArgsSet
    \* create_test_files writes file_size bytes; a file may have lost its
    \* last byte by the time the benchmark phase maps it.  (In descriptor
    \* mode a short file is one more cause for read_exact to fail, and
    \* ReadExact lets any read fail.)
    /\ file_len \in { args.file_size } \cup
                    { l \in { args.file_size - 1 } : l >= 0 /\ args.use_mmap }
    /\ main_pc = IF args.use_mmap THEN "map" ELSE "divide"
    /\ IdleRun
    /\ latencies = << >>
    /\ statistics = ZeroStatistics

\* ---------------------------------------------------------- orchestrator
\* run_mmap_tests: one turn of "for file_path in file_paths": open and map.
\* Either call can fail, and `?` returns the error to the caller.
MapFile ==
    /\ main_pc = "map"
    /\ Len(mmaps) < args.num_files
    /\ \/ /\ mmaps' = Append(mmaps, file_len)
          /\ main_pc' = main_pc
       \/ /\ main_pc' = "failed"
          /\ mmaps' = mmaps
    /\ UNCHANGED << envVars, report, operations_per_thread, remainder, thread_id,
                    wg, results, results_lock, read_blocks, blocks_lock, ret,
                    pc, workerLocals, mark_log >>

\* Mutant: the orchestrator goes on to the workers with files still unmapped.
MapDoneEarly ==
    /\ main_pc = "map"
    /\ main_pc' = "divide"
    /\ UNCHANGED << envVars, report, mmaps, operations_per_thread, remainder,
                    thread_id, wg, results, results_lock, read_blocks,
                    blocks_lock, ret, pc, workerLocals, mark_log >>

MapDone ==
    /\ main_pc = "map"
    /\ Len(mmaps) = args.num_files
    /\ main_pc' = "divide"
    /\ UNCHANGED << envVars, report, mmaps, operations_per_thread, remainder,
                    thread_id, wg, results, results_lock, read_blocks,
                    blocks_lock, ret, pc, workerLocals, mark_log >>

\* operations_per_thread = num_operations / num_threads and the remainder:
\* integer division by zero panics in every build.
Divide ==
    /\ main_pc = "divide"
    /\ IF args.num_threads = 0
       THEN /\ main_pc' = "panicked"
            /\ UNCHANGED << operations_per_thread, remainder >>
       ELSE /\ operations_per_thread' = args.num_operations \div args.num_threads
            /\ remainder' = args.num_operations % args.num_threads
            /\ main_pc' = "spawn"
    /\ UNCHANGED << envVars, report, mmaps, thread_id, wg, results, results_lock,
                    read_blocks, blocks_lock, ret, pc, workerLocals, mark_log >>

\* One turn of "for thread_id in 0..num_threads": clone the wait group and
\* spawn the worker with its share.
Spawn ==
    /\ main_pc = "spawn"
    /\ thread_id < args.num_threads
    /\ thread_operations' =
         [thread_operations EXCEPT
            ![thread_id] = ThreadOperations(operations_per_thread, remainder, thread_id)]
    /\ wg' = wg \cup { thread_id }
    /\ pc' = [pc EXCEPT ![thread_id] = "start"]
    /\ thread_id' = thread_id + 1
    /\ UNCHANGED << envVars, report, main_pc, mmaps, operations_per_thread,
                    remainder, results, results_lock, read_blocks, blocks_lock,
                    ret, rng, op, pick, is_first_read, timing, thread_results, picks, mark_log, reads >>

SpawnDone ==
    /\ main_pc = "spawn"
    /\ thread_id = args.num_threads
    /\ main_pc' = "wait"
    /\ UNCHANGED << envVars, report, mmaps, operations_per_thread, remainder,
                    thread_id, wg, results, results_lock, read_blocks,
                    blocks_lock, ret, pc, workerLocals, mark_log >>

\* Mutant: a wait that does not wait for the guards.
WaitReturnsAtOnce(group) == TRUE

\* wg.wait() returns once every clone has been dropped.
WaitReturns(group) == group = {}

Wait ==
    /\ main_pc = "wait"
    /\ WaitReturns(wg)
    /\ main_pc' = "collect"
    /\ UNCHANGED << envVars, report, mmaps, operations_per_thread, remainder,
                    thread_id, wg, results, results_lock, read_blocks,
                    blocks_lock, ret, pc, workerLocals, mark_log >>

\* let results = results.lock().unwrap(); Ok(results.clone())
ReturnResults ==
    /\ main_pc = "collect"
    /\ results_lock = {}
    /\ ret' = results
    /\ main_pc' = "returned"
    /\ UNCHANGED << envVars, report, mmaps, operations_per_thread, remainder,
                    thread_id, wg, results, results_lock, read_blocks,
                    blocks_lock, pc, workerLocals, mark_log >>

\* ---------------------------------------------------------------- worker
\* Mutant: every worker seeds its generator with the global seed.
WorkerSeedShared(seed, tid) == seed

\* args_clone.seed + thread_id as u64
WorkerSeed(seed, tid) == seed + tid

\* The sum leaves the u64 range exactly when the seed is u64::MAX (-1 here)
\* and the thread id is positive; it then wraps to tid - 1, which is what
\* -1 + tid is.
SeedOverflows(seed, tid) == seed < 0 /\ WorkerSeed(seed, tid) >= 0

\* A panic unwinds the worker: its locals are dropped, _guard among them.
Panic(w) ==
    /\ pc' = [pc EXCEPT ![w] = "panicked"]
    /\ wg' = wg \ { w }

\* let _guard = wg_clone; let mut rng = StdRng::seed_from_u64(seed + thread_id)
\* A build with overflow checks panics on the overflowing sum, a build
\* without them wraps.
WorkerStart(w) ==
    /\ pc[w] = "start"
    /\ \/ /\ SeedOverflows(args.seed, w)
          /\ Panic(w)
          /\ rng' = rng
       \/ /\ rng' = [rng EXCEPT ![w] = SeedFromU64(WorkerSeed(args.seed, w))]
          /\ pc' = [pc EXCEPT ![w] = "loop"]
          /\ wg' = wg
    /\ UNCHANGED << envVars, report, mainVars, results, results_lock,
                    read_blocks, blocks_lock, thread_operations, op, pick,
                    is_first_read, timing, thread_results, picks,
                    mark_log, reads >>

\* file_paths_clone.len() / mmaps_clone.len()
NumTargets == IF args.use_mmap THEN Len(mmaps) ELSE args.num_files

\* The head of one loop turn, up to the offset:
\*   file_index  = rng.gen_range(0..len)          panics on an empty range
\*   max_blocks  = file_size / block_size         panics on block_size = 0
\*   if max_blocks == 0 { continue; }
\*   block_index = rng.gen_range(0..max_blocks); offset = block_index * block_size
DrawPick(state, len, file_size, block_size) ==
    IF len = 0 \/ block_size = 0 THEN [kind |-> "panic", rng |-> state, pick |-> NoPick]
    ELSE LET file_index == GenRange(state, len)
             s1 == RngNext(state)
             max_blocks == file_size \div block_size
         IN IF max_blocks = 0
            THEN [kind |-> "skip", rng |-> s1, pick |-> NoPick]
            ELSE LET block_index == GenRange(s1, max_blocks)
                 IN [kind |-> "pick", rng |-> RngNext(s1),
                     pick |-> << file_index, block_index, block_index * block_size >>]

Pick(w) ==
    /\ pc[w] = "loop"
    /\ op[w] < thread_operations[w]
    /\ LET d == DrawPick(rng[w], NumTargets, args.file_size, args.block_size)
       IN CASE d.kind = "panic" ->
                 /\ Panic(w)
                 /\ UNCHANGED << rng, op, pick, picks >>
            [] d.kind = "skip" ->
                 /\ rng' = [rng EXCEPT ![w] = d.rng]
                 /\ op' = [op EXCEPT ![w] = @ + 1]
                 /\ UNCHANGED << pc, wg, pick, picks >>
            [] d.kind = "pick" ->
                 /\ rng' = [rng EXCEPT ![w] = d.rng]
                 /\ pick' = [pick EXCEPT ![w] = d.pick]
                 /\ picks' = [picks EXCEPT ![w] = Append(@, d.pick)]
                 /\ pc' = [pc EXCEPT ![w] = "lock_blocks"]
                 /\ UNCHANGED << op, wg >>
    /\ UNCHANGED << envVars, report, mainVars, results, results_lock,
                    read_blocks, blocks_lock, thread_operations, is_first_read,
                    timing, thread_results, mark_log, reads >>

\* read_blocks_clone.lock().unwrap()
LockBlocks(w) ==
    /\ pc[w] = "lock_blocks"
    /\ blocks_lock = {}
    /\ blocks_lock' = { w }
    /\ pc' = [pc EXCEPT ![w] = "insert"]
    /\ UNCHANGED << envVars, report, mainVars, wg, results, results_lock,
                    read_blocks, workerLocals, mark_log >>

\* blocks.insert(format!(..)), and the guard dropped at the end of the block
Insert(w) ==
    /\ pc[w] = "insert"
    /\ LET key == BlockKey(pick[w][1], pick[w][2])
           first == InsertIsNew(read_blocks, key)
       IN /\ is_first_read' = [is_first_read EXCEPT ![w] = first]
          /\ read_blocks' = read_blocks \cup { key }
          /\ mark_log' = mark_log \cup
               { [thread |-> w, op |-> op[w], file_index |-> pick[w][1],
                  block_index |-> pick[w][2], answer |-> first] }
    /\ blocks_lock' = {}
    /\ pc' = [pc EXCEPT ![w] = "timer"]
    /\ UNCHANGED << envVars, report, mainVars, wg, results, results_lock,
                    thread_operations, rng, op, pick, timing, thread_results, picks, reads >>

\* let start = Instant::now()
StartTimer(w) ==
    /\ pc[w] = "timer"
    /\ timing' = [timing EXCEPT ![w] = TRUE]
    /\ pc' = [pc EXCEPT ![w] = IF args.use_mmap THEN "mmap_read" ELSE "open"]
    /\ UNCHANGED << envVars, report, mainVars, wg, results, results_lock,
                    read_blocks, blocks_lock, thread_operations, rng, op, pick,
                    is_first_read, thread_results, picks, mark_log,
                    reads >>

\* io::Result<Vec<u8>>: an error, or a buffer of so many bytes
Err == [ok |-> FALSE, bytes |-> 0]
Ok(bytes) == [ok |-> TRUE, bytes |-> bytes]

\* Mutant: the result is pushed whether or not the read succeeded.
RecordAlways(buffer, ok, latency, first) ==
    Append(buffer, [latency |-> latency, is_first_read |-> first])

\* Mutant: every result is pushed flagged as a first read.
RecordFlaggedFirst(buffer, ok, latency, first) ==
    IF ok THEN Append(buffer, [latency |-> latency, is_first_read |-> TRUE])
    ELSE buffer

\* if result.is_ok() { thread_results.push(ReadResult { latency, is_first_read }) }
Record(buffer, ok, latency, first) ==
    IF ok THEN Append(buffer, [latency |-> latency, is_first_read |-> first])
    ELSE buffer

\* The read call has returned `ok`: let latency = start.elapsed(), the push,
\* and the end of the loop turn.
Elapsed(w, read_result) ==
    /\ \E latency \in Latencies :
         thread_results' = [thread_results EXCEPT ![w] =
                              Record(@, read_result.ok, latency, is_first_read[w])]
    /\ reads' = [reads EXCEPT ![w] =
                   [attempted |-> @.attempted + 1,
                    failed |-> @.failed + (IF read_result.ok THEN 0 ELSE 1),
                    bytes |-> @.bytes + read_result.bytes,
                    kept |-> IF Len(thread_results'[w]) > Len(thread_results[w])
                             THEN @.kept \cup { [op |-> op[w],
                                                 index |-> Len(thread_results'[w])] }
                             ELSE @.kept]]
    /\ timing' = [timing EXCEPT ![w] = FALSE]
    /\ op' = [op EXCEPT ![w] = @ + 1]
    /\ pick' = [pick EXCEPT ![w] = NoPick]
    /\ is_first_read' = [is_first_read EXCEPT ![w] = FALSE]
    /\ pc' = [pc EXCEPT ![w] = "loop"]

\* perform_standard_read: File::open(file_path)?  A failed open ends the call.
OpenFile(w) ==
    /\ pc[w] = "open"
    /\ \/ /\ pc' = [pc EXCEPT ![w] = "read"]
          /\ UNCHANGED << op, pick, is_first_read, timing, thread_results, reads >>
       \/ Elapsed(w, Err)
    /\ UNCHANGED << envVars, report, mainVars, wg, results, results_lock,
                    read_blocks, blocks_lock, thread_operations, rng, picks,
                    mark_log >>

\* read_exact fills the whole buffer or fails.
ReadExactFits(offset, block_size, len) == offset + block_size <= len

\* perform_standard_read: seek, then read_exact into a block_size buffer.
\* The storage layer can fail either call.
ReadExact(w) ==
    /\ pc[w] = "read"
    /\ \/ /\ ReadExactFits(pick[w][3], args.block_size, file_len)
          /\ Elapsed(w, Ok(args.block_size))
       \/ Elapsed(w, Err)
    /\ UNCHANGED << envVars, report, mainVars, wg, results, results_lock,
                    read_blocks, blocks_lock, thread_operations, rng, picks,
                    mark_log >>

\* Mutant: only the first byte of the block is checked against the mapping.
MmapInBoundsAtOffset(offset, block_size, len) == offset < len

\* perform_mmap_read: Err when offset + block_size > mmap.len()
MmapInBounds(offset, block_size, len) == ~ (offset + block_size > len)

\* perform_mmap_read: the bounds check, then mmap[offset..offset + block_size]
\* copied into a new buffer.
PerformMmapRead(offset, block_size, len) ==
    IF MmapInBounds(offset, block_size, len)
    THEN Ok((offset + block_size) - offset)
    ELSE Err

MmapRead(w) ==
    /\ pc[w] = "mmap_read"
    /\ Elapsed(w, PerformMmapRead(pick[w][3], args.block_size,
                                  mmaps[pick[w][1] + 1]))
    /\ UNCHANGED << envVars, report, mainVars, wg, results, results_lock,
                    read_blocks, blocks_lock, thread_operations, rng, picks,
                    mark_log >>

\* The for loop is exhausted: results_clone.lock().unwrap()
LockResults(w) ==
    /\ pc[w] = "loop"
    /\ op[w] = thread_operations[w]
    /\ results_lock = {}
    /\ results_lock' = { w }
    /\ pc' = [pc EXCEPT ![w] = "extend"]
    /\ UNCHANGED << envVars, report, mainVars, wg, results, read_blocks,
                    blocks_lock, workerLocals, mark_log >>

\* global_results.extend(thread_results), the lock released, and the closure
\* ends: _guard is dropped.  The local vector is moved into the call and
\* never used again; thread_results[w] keeps its value as the record of what
\* the worker handed over.
Extend(w) ==
    /\ pc[w] = "extend"
    /\ results' = results \o thread_results[w]
    /\ results_lock' = {}
    /\ wg' = wg \ { w }
    /\ pc' = [pc EXCEPT ![w] = "done"]
    /\ UNCHANGED << envVars, report, mainVars, read_blocks, blocks_lock,
                    workerLocals, mark_log >>

Worker(w) ==
    \/ WorkerStart(w) \/ Pick(w) \/ LockBlocks(w) \/ Insert(w)
    \/ StartTimer(w) \/ OpenFile(w) \/ ReadExact(w) \/ MmapRead(w)
    \/ LockResults(w) \/ Extend(w)

\* ---------------------------------------------------------------- report
LatenciesOf(rs) == [i \in 1 .. Len(rs) |-> rs[i].latency]

IsFirst(r) == r.is_first_read
IsRepeated(r) == ~ r.is_first_read

Section(name, rs) ==
    [ section |-> name, operations |-> Len(rs),
      stats |-> CalculateStatistics(LatenciesOf(rs)) ]

\* Mutant: the two subset reports are printed whether or not the subset is empty.
AnalyzeAndReportEverySection(rs) ==
    IF rs = << >> THEN << >>
    ELSE << Section("all", rs), Section("first", SelectSeq(rs, IsFirst)),
            Section("repeated", SelectSeq(rs, IsRepeated)) >>

\* analyze_and_report_results: nothing but a message for an empty collection;
\* otherwise "All Reads", then "First Reads" and "Repeated Reads" when the
\* subset is not empty.
AnalyzeAndReport(rs) ==
    IF rs = << >> THEN << >>
    ELSE LET first_reads == SelectSeq(rs, IsFirst)
             repeated_reads == SelectSeq(rs, IsRepeated)
         IN << Section("all", rs) >>
            \o (IF first_reads # << >> THEN << Section("first", first_reads) >> ELSE << >>)
            \o (IF repeated_reads # << >> THEN << Section("repeated", repeated_reads) >> ELSE << >>)

\* main, Phase 4
Analyze ==
    /\ main_pc = "returned"
    /\ report' = AnalyzeAndReport(ret)
    /\ main_pc' = "reported"
    /\ UNCHANGED << envVars, mmaps, operations_per_thread, remainder, thread_id,
                    wg, results, results_lock, read_blocks, blocks_lock, ret,
                    pc, workerLocals, mark_log >>

Orchestrator ==
    \/ MapFile \/ MapDone \/ Divide \/ Spawn \/ SpawnDone \/ Wait
    \/ ReturnResults \/ Analyze

Next == Orchestrator \/ \E w \in Threads : Worker(w)

Spec == Init /\ [][Next]_vars

\* The seed decides which blocks are read, not how the threads are
\* scheduled; the runs studied for termination start from the one seed whose
\* sum with a thread id can overflow, so that workers that panic at their
\* start and workers that do not are both among them.
InitFair == Init /\ args.seed = -1

\* The same program under a fair scheduler: the orchestrator and every
\* worker thread that can take a step eventually takes one.  A read call is
\* a step of its worker, so under this specification every read returns.
FairSpec ==
    /\ InitFair
    /\ [][Next]_vars
    /\ WF_vars(Orchestrator)
    /\ \A w \in Threads : WF_vars(Worker(w))

\* ------------------------------------------- calculate_statistics alone
MaxSample == 4
MaxNanos == 3

\* 1, 2, .., 10 microseconds, and the same sample in two other orders
Micros(n, order) == [i \in 1 .. n |-> 1000 * order[i]]
OneToTen == Micros(10, [i \in 1 .. 10 |-> i])
TenToOne == Micros(10, [i \in 1 .. 10 |-> 11 - i])
Shuffled == Micros(10, << 7, 2, 10, 4, 1, 9, 5, 3, 8, 6 >>)
\* twenty-five distinct latencies, largest first: the three percentile
\* indices differ
Descending == [i \in 1 .. 25 |-> 26 - i]

\* samples of every size up to MaxCount, all latencies equal
MaxCount == 30
Flat(n) == [i \in 1 .. n |-> 1]

Samples ==
    UNION { [1 .. n -> 0 .. MaxNanos] : n \in 0 .. MaxSample }
      \cup { OneToTen, TenToOne, Shuffled, Descending }
      \cup { Flat(n) : n \in 1 .. MaxCount }

InitStats ==
    /\ args = [ num_files |-> 0, file_size |-> 0, block_size |-> 0,
                num_threads |-> 0, num_operations |-> 0, seed |-> 0,
                use_mmap |-> FALSE ]
    /\ file_len = 0
    /\ main_pc = "calculate"
    /\ IdleRun
    /\ latencies \in Samples
    /\ statistics = ZeroStatistics

Calculate ==
    /\ main_pc = "calculate"
    /\ statistics' = CalculateStatistics(latencies)
    /\ main_pc' = "calculated"
    /\ UNCHANGED << args, file_len, latencies, mmaps, operations_per_thread,
                    remainder, thread_id, wg, results, results_lock,
                    read_blocks, blocks_lock, ret, pc, workerLocals, mark_log,
                    report >>

NextStats == Calculate

SpecStats == InitStats /\ [][NextStats]_vars

\* ================================================================ claims
Returned == main_pc \in { "returned", "reported" }
Spawned == 0 .. (args.num_threads - 1)

RECURSIVE SumUpTo(_, _)
SumUpTo(f, n) == IF n = 0 THEN 0 ELSE f[n - 1] + SumUpTo(f, n - 1)

Occurrences(rs, r) == Cardinality({ i \in 1 .. Len(rs) : rs[i] = r })
FirstCount(rs) == Len(SelectSeq(rs, IsFirst))

SameKey(e, f) == e.file_index = f.file_index /\ e.block_index = f.block_index

\* C1: of all the inserts into the first-touch registry made for one
\* (file_index, block_index) key, by any workers in any order, exactly one
\* answered true.
C1_ExactlyOneFirstTouch ==
    \A e \in mark_log :
        Cardinality({ f \in mark_log : SameKey(e, f) /\ f.answer }) = 1

\* Two workers have presented the same key; one was answered true, the other false.
C1_Witness ==
    \E e, f \in mark_log :
        e.thread # f.thread /\ SameKey(e, f) /\ e.answer /\ ~ f.answer

\* C2: once every worker is spawned (num_threads >= 1), the shares sum to
\* num_operations, any two differ by at most one, and the workers with the
\* larger share are exactly those with index < num_operations mod num_threads.
C2_SharesPartitionTheBudget ==
    main_pc \in { "wait", "collect", "returned", "reported" } =>
        /\ SumUpTo(thread_operations, args.num_threads) = args.num_operations
        /\ \A v, w \in Spawned :
               thread_operations[v] - thread_operations[w] <= 1
        /\ { w \in Spawned : \E v \in Spawned :
                                thread_operations[w] > thread_operations[v] }
             = { w \in Spawned : w < args.num_operations % args.num_threads }

\* Two workers, an odd budget: worker 0 got the extra operation.
C2_Witness ==
    /\ main_pc = "wait"
    /\ args.num_threads = 2
    /\ thread_operations[0] = thread_operations[1] + 1

\* C3: with num_threads zero, or larger than num_operations, the orchestrator
\* does not panic.
C3_NoPanicOnOddThreadCount ==
    (args.num_threads = 0 \/ args.num_threads > args.num_operations) =>
        main_pc # "panicked"

\* C4: when wg.wait() has returned, every worker has run its loop to the end
\* and appended its buffer once, so the merged (and the returned) collection
\* is the multiset union of the workers' buffers.
C4_MergeAfterAllWorkers ==
    main_pc \in { "collect", "returned", "reported" } =>
        /\ \A w \in Spawned : pc[w] = "done" /\ op[w] = thread_operations[w]
        /\ \A w \in Spawned : \A i \in 1 .. Len(thread_results[w]) :
               Occurrences(results, thread_results[w][i])
                 = SumUpTo([v \in Threads |->
                              Occurrences(thread_results[v], thread_results[w][i])],
                           args.num_threads)
        /\ Len(results) = SumUpTo([v \in Threads |-> Len(thread_results[v])],
                                  args.num_threads)
        /\ (Returned => ret = results)

\* C5: a failed read leaves no ReadResult (the buffer holds one result per
\* read that succeeded), and it aborts neither the worker nor the run: a
\* worker that has seen a read fail never panics, reaches its merge only
\* with every one of its operations performed, and has merged when the
\* orchestrator goes on past the wait.
C5_FailedReadIsDropped ==
    \A w \in Threads :
        /\ Len(thread_results[w]) = reads[w].attempted - reads[w].failed
        /\ reads[w].failed > 0 =>
              /\ pc[w] # "panicked"
              /\ main_pc \notin { "panicked", "failed" }
              /\ (pc[w] \in { "extend", "done" } => op[w] = thread_operations[w])
              /\ (main_pc \in { "collect", "returned", "reported" } => pc[w] = "done")

\* A worker had a read fail and a read succeed, went on and merged; the run returned.
C5_Witness ==
    /\ main_pc = "returned"
    /\ \E w \in Spawned :
          /\ reads[w].failed >= 1
          /\ Len(thread_results[w]) >= 1
          /\ pc[w] = "done"

\* C6 as claimed: the merged results number at most num_operations, and
\* fewer only if some read failed.
C6_FewerOnlyIfAReadFailed ==
    Returned =>
        /\ Len(ret) <= args.num_operations
        /\ (Len(ret) < args.num_operations => \E w \in Spawned : reads[w].failed > 0)

\* C6 amended: the merged results number at most num_operations, and fewer
\* only if some read failed or some operation attempted no read.
C6_FewerOnlyIfFailedOrNotAttempted ==
    Returned =>
        /\ Len(ret) <= args.num_operations
        /\ (Len(ret) < args.num_operations =>
              \/ \E w \in Spawned : reads[w].failed > 0
              \/ SumUpTo([w \in Threads |-> reads[w].attempted], args.num_threads)
                   < args.num_operations)

\* block_size > file_size: every operation was skipped, no read failed, and
\* the run returned fewer results than num_operations.
C6_Witness ==
    /\ main_pc = "returned"
    /\ args.num_files > 0
    /\ args.block_size > args.file_size
    /\ args.num_operations > 0
    /\ \A w \in Spawned : pc[w] = "done" /\ reads[w].failed = 0
    /\ Len(ret) < args.num_operations

\* C7: the results flagged is_first_read, in the workers' buffers taken
\* together, in the merged collection and in the returned one, number at
\* most num_files * (file_size / block_size); no quotient exists for
\* block_size = 0, and then there is none.
C7_FirstReadsWithinKeys ==
    LET bound == IF args.block_size = 0 THEN 0
                 ELSE args.num_files * (args.file_size \div args.block_size)
    IN /\ FirstCount(results) <= bound
       /\ FirstCount(ret) <= bound
       /\ SumUpTo([w \in Threads |-> FirstCount(thread_results[w])],
                  args.num_threads) <= bound

\* Every key was touched and at least one read was a repeated one.
C7_Witness ==
    /\ main_pc = "returned"
    /\ args.block_size > 0
    /\ FirstCount(ret) = args.num_files * (args.file_size \div args.block_size)
    /\ Len(ret) > FirstCount(ret)

\* The picks of the first `turns` loop turns of a worker whose generator
\* starts in `state`.
RECURSIVE ExpectedPicks(_, _, _, _, _)
ExpectedPicks(state, len, file_size, block_size, turns) ==
    IF turns = 0 THEN << >>
    ELSE LET d == DrawPick(state, len, file_size, block_size)
         IN CASE d.kind = "panic" -> << >>
              [] d.kind = "skip" ->
                   ExpectedPicks(d.rng, len, file_size, block_size, turns - 1)
              [] d.kind = "pick" ->
                   << d.pick >> \o
                   ExpectedPicks(d.rng, len, file_size, block_size, turns - 1)

TurnsBegun(w) ==
    op[w] + (IF pc[w] \in { "lock_blocks", "insert", "timer", "open", "read",
                            "mmap_read" } THEN 1 ELSE 0)

\* C8: the picks a worker has made are a function of seed + worker index,
\* num_files, file_size, block_size and the number of loop turns begun, and
\* of nothing else: not the interleaving, the reads' outcomes, the
\* first-touch answers or the I/O mode.
C8_PicksAreAFunctionOfTheSeed ==
    \A w \in Threads :
        pc[w] \notin { "unspawned", "start" } =>
            picks[w] = ExpectedPicks(SeedFromU64(args.seed + w), args.num_files,
                                     args.file_size, args.block_size,
                                     TurnsBegun(w))

\* Two workers have made different picks, and a read has failed.
C8_Witness ==
    /\ \E v, w \in Spawned :
          /\ Len(picks[v]) >= 1
          /\ Len(picks[w]) >= 1
          /\ picks[v][1] # picks[w][1]
    /\ \E w \in Spawned : reads[w].failed > 0

\* C9: the timed interval holds the read alone: no worker is about to open
\* its file with its timer running, no worker holds the registry lock with
\* its timer running, and no worker exists while files are being mapped.
C9_TimerCoversOnlyTheRead ==
    /\ \A w \in Threads : pc[w] = "open" => ~ timing[w]
    /\ \A w \in Threads : timing[w] => w \notin blocks_lock
    /\ (main_pc = "map" => \A w \in Threads : pc[w] = "unspawned")

Range(s) == { s[i] : i \in DOMAIN s }
Below(s, x) == Cardinality({ i \in DOMAIN s : s[i] < x })
AtMost(s, x) == Cardinality({ i \in DOMAIN s : s[i] <= x })

\* The element at index k (from zero) of the ascending order of s.
KthSmallest(s, k) ==
    CHOOSE x \in Range(s) : Below(s, x) <= k /\ k < AtMost(s, x)

\* Everything C10 says but the average.
OrderStatistics ==
    LET n == Len(latencies) IN
    /\ statistics.count = n
    /\ \A x \in Range(latencies) : statistics.min <= x /\ x <= statistics.max
    /\ statistics.min \in Range(latencies)
    /\ statistics.max \in Range(latencies)
    /\ statistics.median = KthSmallest(latencies, n \div 2)
    /\ statistics.p90 = KthSmallest(latencies, (n * 90) \div 100)
    /\ statistics.p95 = KthSmallest(latencies, (n * 95) \div 100)
    /\ statistics.p99 = KthSmallest(latencies, (n * 99) \div 100)
    /\ (latencies \in { OneToTen, TenToOne, Shuffled } =>
           /\ statistics.min = 1000
           /\ statistics.max = 10000
           /\ statistics.median = 6000
           /\ statistics.p90 = 10000
           /\ statistics.avg = 5500)

\* C10 as claimed: avg is the arithmetic mean.
C10_AvgIsTheMean ==
    (main_pc = "calculated" /\ latencies # << >>) =>
        /\ OrderStatistics
        /\ statistics.avg * Len(latencies) = SumSeq(latencies)

\* C10 amended: avg is the arithmetic mean with the fraction of a nanosecond
\* dropped.
C10_AvgIsTheTruncatedMean ==
    (main_pc = "calculated" /\ latencies # << >>) =>
        /\ OrderStatistics
        /\ statistics.avg * Len(latencies) <= SumSeq(latencies)
        /\ SumSeq(latencies) < (statistics.avg + 1) * Len(latencies)

\* The ten-microsecond sample, out of order, has been summarised.
C10_Witness ==
    /\ main_pc = "calculated"
    /\ latencies = Shuffled
    /\ statistics.p90 = 10000

\* C11: the summary of an empty latency sample is returned (no failure) with
\* count 0 and avg, median, p90, p95, p99, min and max all zero.
C11_EmptySampleIsAllZero ==
    (main_pc = "calculated" /\ latencies = << >>) =>
        /\ DOMAIN statistics
             = { "count", "avg", "median", "p90", "p95", "p99", "min", "max" }
        /\ \A field \in DOMAIN statistics : statistics[field] = 0

\* calculate_statistics has returned from a call with no latencies.
C11_Witness ==
    /\ main_pc = "calculated"
    /\ latencies = << >>
    /\ statistics.count = 0

SectionNames == { report[i].section : i \in 1 .. Len(report) }
SectionOver(name, rs) ==
    \E i \in 1 .. Len(report) :
        /\ report[i].section = name
        /\ report[i].operations = Len(rs)
        /\ report[i].stats = CalculateStatistics(LatenciesOf(rs))

\* The report has the section over all results, and each subset section
\* exactly when its subset is nonempty.
ReportsAllAndNonemptySubsets ==
    /\ SectionNames \subseteq { "all", "first", "repeated" }
    /\ SectionOver("all", ret)
    /\ "first" \in SectionNames <=> SelectSeq(ret, IsFirst) # << >>
    /\ "first" \in SectionNames => SectionOver("first", SelectSeq(ret, IsFirst))
    /\ "repeated" \in SectionNames <=> SelectSeq(ret, IsRepeated) # << >>
    /\ "repeated" \in SectionNames =>
           SectionOver("repeated", SelectSeq(ret, IsRepeated))

\* C12 as claimed: for every merged result collection the aggregator produces
\* the report over all results, and the first-access (repeated-access) report
\* if and only if that subset is nonempty; no other report is ever omitted.
C12_OnlySubsetReportsOmitted ==
    main_pc = "reported" => ReportsAllAndNonemptySubsets

\* C12 amended: the same for every nonempty collection; for an empty
\* collection no report at all is produced.
C12_NoReportForNoResults ==
    main_pc = "reported" =>
        IF ret = << >> THEN report = << >> ELSE ReportsAllAndNonemptySubsets

\* A collection of first accesses only has been reported: two sections.
C12_Witness ==
    /\ main_pc = "reported"
    /\ ret # << >>
    /\ SectionNames = { "all", "first" }

\* C13: in mapped mode a request with offset + block_size > mapped length
\* returns an error, no buffer, and adds nothing to the results; a request
\* with offset + block_size <= mapped length returns exactly block_size bytes
\* and its result is kept.
C13_MappedReadChecksBounds ==
    [][\A w \in Threads :
          (pc[w] = "mmap_read" /\ pc'[w] # "mmap_read") =>
              IF pick[w][3] + args.block_size > mmaps[pick[w][1] + 1]
              THEN /\ reads'[w].failed = reads[w].failed + 1
                   /\ reads'[w].bytes = reads[w].bytes
                   /\ thread_results'[w] = thread_results[w]
              ELSE /\ reads'[w].failed = reads[w].failed
                   /\ reads'[w].bytes = reads[w].bytes + args.block_size
                   /\ Len(thread_results'[w]) = Len(thread_results[w]) + 1]_vars

\* On a mapping shorter than file_size, one mapped read was refused and
\* another returned a block.
C13_Witness ==
    /\ args.use_mmap
    /\ file_len < args.file_size
    /\ \E v, w \in Threads :
           /\ reads[v].failed >= 1
           /\ reads[w].bytes >= args.block_size
           /\ Len(thread_results[w]) >= 1

NoWorkerSpawned == \A w \in Threads : pc[w] = "unspawned"

\* C14: in mapped mode every target file is mapped before the first worker is
\* spawned, and a failed open or mapping ends the run with that error: no
\* worker spawned, no key registered, no result produced.
C14_AllMappedBeforeAnyWorker ==
    /\ (args.use_mmap /\ ~ NoWorkerSpawned) => Len(mmaps) = args.num_files
    /\ main_pc = "map" => NoWorkerSpawned
    /\ main_pc = "failed" =>
           /\ args.use_mmap
           /\ NoWorkerSpawned
           /\ wg = {}
           /\ read_blocks = {} /\ mark_log = {}
           /\ results = << >> /\ ret = << >> /\ report = << >>
           /\ \A w \in Threads : thread_results[w] = << >>
           /\ ~ ENABLED Next

\* The first file was mapped and the second could not be.
C14_Witness ==
    /\ main_pc = "failed"
    /\ args.num_files = 2
    /\ Len(mmaps) = 1

\* C15: with block_size larger than file_size the run is not an error: every
\* worker skips each of its operations without drawing a block index,
\* registering a key or performing a read, the run completes normally, and
\* the merged result collection is empty.
C15_OversizedBlockSkipsEverything ==
    args.block_size > args.file_size =>
        /\ main_pc # "panicked"
        /\ \A w \in Threads :
               /\ pc[w] \in { "unspawned", "start", "loop", "extend", "done" }
               /\ picks[w] = << >>
               /\ reads[w].attempted = 0
        /\ read_blocks = {} /\ mark_log = {}
        /\ Returned =>
               /\ ret = << >>
               /\ \A w \in Spawned :
                      pc[w] = "done" /\ op[w] = thread_operations[w]

InReadCall(w) == pc[w] \in { "open", "read", "mmap_read" }

\* No worker holds the registry lock and the results lock together.
NeverBothLocks == \A w \in Threads : ~ (w \in blocks_lock /\ w \in results_lock)

\* While a worker is inside a read call the wait has not returned.
ReadInProgressStallsJoin ==
    (\E w \in Threads : InReadCall(w)) =>
        main_pc \notin { "collect", "returned", "reported" }

\* C16: under fair scheduling with num_threads >= 1 and every read call
\* returning, a run that starts its workers eventually has the wait return
\* and the orchestrator return the merged results; no worker ever holds both
\* locks; and as long as one worker's read has not returned the orchestrator
\* does not return.
C16_JoinCompletesUnlessAReadHangs ==
    /\ (args.num_threads >= 1 /\ main_pc = "divide") ~> Returned
    /\ [](NeverBothLocks /\ ReadInProgressStallsJoin)

\* One worker has finished and dropped its guard, the other is inside a read
\* call, and the orchestrator is blocked in the wait.
C16_Witness ==
    /\ main_pc = "wait"
    /\ \E v, w \in Threads : pc[v] = "done" /\ InReadCall(w)

\* The accesses whose result is in the merged collection: registered, read
\* successfully, pushed, and handed over by their worker.
KeptAt(e) == { k \in reads[e.thread].kept : k.op = e.op }
Merged == { e \in mark_log : pc[e.thread] = "done" /\ KeptAt(e) # {} }
FlagOf(e) ==
    thread_results[e.thread][(CHOOSE k \in KeptAt(e) : TRUE).index].is_first_read
FlaggedFor(e) == { f \in Merged : SameKey(e, f) /\ FlagOf(f) }

\* C17 as claimed: for every key with at least one result in the merged
\* collection, exactly one merged result for that key is flagged
\* is_first_read = true, failed reads or not.
C17_ExactlyOneFlaggedPerKey ==
    Returned =>
        /\ Cardinality(Merged) = Len(ret)
        /\ \A e \in Merged : Cardinality(FlaggedFor(e)) = 1

\* C17 amended: at most one merged result per key is flagged, and one is
\* exactly when the read of the access that registered the key succeeded.
C17_AtMostOneFlaggedPerKey ==
    Returned =>
        /\ Cardinality(Merged) = Len(ret)
        /\ \A e \in Merged :
               /\ Cardinality(FlaggedFor(e)) <= 1
               /\ FlaggedFor(e) = { f \in Merged : SameKey(e, f) /\ f.answer }

\* The read that registered a key failed and a later read of the same key
\* succeeded: the key has a merged result and none flagged.
C17_Witness ==
    /\ Returned
    /\ \E e \in Merged, f \in mark_log :
           /\ SameKey(e, f) /\ f.answer /\ f \notin Merged
           /\ FlaggedFor(e) = {}

\* << file_index, block_index, offset >> is an access the generator may make.
BlockAligned(p) ==
    /\ args.block_size >= 1
    /\ p[1] \in 0 .. (args.num_files - 1)
    /\ p[2] \in 0 .. ((args.file_size \div args.block_size) - 1)
    /\ p[3] = p[2] * args.block_size
    /\ p[3] + args.block_size <= args.file_size

\* C18: every access handed to the read executor has offset = block_index *
\* block_size with 0 <= block_index < file_size / block_size, hence offset +
\* block_size <= file_size; so when every mapping has length file_size no
\* mapped read of a worker is refused.
C18_AccessesAreBlockAligned ==
    /\ \A w \in Threads :
           /\ pc[w] \in { "lock_blocks", "insert", "timer" } \/ InReadCall(w) =>
                  BlockAligned(pick[w]) /\ pick[w] = picks[w][Len(picks[w])]
           /\ \A i \in 1 .. Len(picks[w]) : BlockAligned(picks[w][i])
    /\ (args.use_mmap /\ file_len = args.file_size) =>
           \A w \in Threads : reads[w].failed = 0

\* A mapped read of the second block of a fully mapped file has succeeded.
C18_Witness ==
    /\ args.use_mmap
    /\ file_len = args.file_size
    /\ \E w \in Threads :
           /\ \E i \in 1 .. Len(picks[w]) : picks[w][i][3] >= 1
           /\ reads[w].attempted = Len(picks[w])
           /\ reads[w].attempted >= 1
           /\ reads[w].failed = 0

\* C19: for every configuration with num_threads >= 1, num_files = 0 and
\* block_size = 0 included, no spawned worker panics: each runs its loop to
\* the end and reaches its merge step.
C19_NoWorkerPanics ==
    args.num_threads >= 1 =>
        /\ \A w \in Threads : pc[w] # "panicked"
        /\ Returned => \A w \in Spawned : pc[w] = "done"

\* The indices calculate_statistics reads the sorted sample at.
StatisticsIndices(count) ==
    { MedianIndex(count), PercentileIndex(count, 90),
      PercentileIndex(count, 95), PercentileIndex(count, 99) }

\* C20: for every sample of count >= 1 latencies, the indices count / 2,
\* floor(count * 0.90), floor(count * 0.95) and floor(count * 0.99) lie in
\* 0 .. count - 1: the sorted sample is never indexed outside its length.
C20_IndicesInsideTheSample ==
    latencies # << >> =>
        /\ StatisticsIndices(Len(latencies)) \subseteq 0 .. (Len(latencies) - 1)
        /\ main_pc = "calculated" => statistics.count = Len(latencies)

\* A sample of one latency has been summarised: every index is 0.
C20_Witness ==
    /\ main_pc = "calculated"
    /\ Len(latencies) = 1
    /\ StatisticsIndices(1) = { 0 }
    /\ statistics.p99 = latencies[1]

====
